---- MODULE Spec2Model ----
(***************************************************************************)
(* State-machine model of the two PDF pipelines of the repository:         *)
(*   Challenge_1a/process_pdfs.py   - PDFOutlineExtractor and process_pdfs *)
(*   Challenge_1b/persona_engine.py - PDFDocumentProcessor                 *)
(* A text is a sequence of one-character strings.  A font size is a        *)
(* number.  A page is the sequence of blocks the decoder returns for       *)
(* page.get_text("dict")["blocks"].                                        *)
(***************************************************************************)
EXTENDS Integers, Sequences, FiniteSets, TLC

VARIABLES
    \* ---- Challenge_1a: PDFOutlineExtractor / process_pdfs
    min_heading_length,   \* self.min_heading_length
    max_heading_levels,   \* self.max_heading_levels
    num_files,            \* len(pdf_files)
    idx,                  \* number of pdf_files entries the loop has taken
    file,                 \* the file behind pdf_file: what the decoder yields
    pc,                   \* position in process_pdfs / extract_outline
    open_handles,         \* documents opened and not yet closed
    size_to_level,        \* local of extract_outline
    page_num,             \* enumerate(doc, start=1) position
    all_headings,         \* local of extract_outline
    outline_data,         \* value returned by extract_outline
    successful,           \* process_pdfs tally
    failed,               \* process_pdfs tally
    outputs,              \* indices of pdf_files whose JSON was written
    \* ---- Challenge_1b: PDFDocumentProcessor
    max_sections,         \* self.max_sections
    max_text_length,      \* self.max_text_length
    config_data,          \* persona.role, job_to_be_done.task, documents
    combined_keywords,
    bpc,                  \* position in process_document_collection
    didx,                 \* number of document_list entries taken
    handles,              \* documents opened and not yet closed
    bpage,                \* enumerate(doc, start=1) position
    relevant_sections,    \* locals of process_pdf_document
    detailed_subsections,
    all_relevant_sections,
    all_detailed_subsections,
    processed_documents,
    processing_results,   \* the dictionary handed to save_results
    read_log              \* history: per listed document, what the file system
                          \* and the decoder answered

varsA == <<min_heading_length, max_heading_levels, num_files, idx, file, pc,
           open_handles, size_to_level, page_num, all_headings, outline_data,
           successful, failed, outputs>>
varsB == <<max_sections, max_text_length, config_data, combined_keywords, bpc,
           didx, handles, bpage, relevant_sections, detailed_subsections,
           all_relevant_sections, all_detailed_subsections,
           processed_documents, processing_results, read_log>>
vars == <<varsA, varsB>>

----------------------------------------------------------------------------
(* Bounds of the model *)

MaxTokens == 3      \* blocks plus page breaks of a document given to extract_outline
BatchTokens == 1    \* the same, for the documents of a process_pdfs batch
MaxFiles == 2       \* PDF files found by process_pdfs
MaxDocs == 2        \* entries of a collection's document list
MaxPagesRead == 2   \* pages the decoder yields to one collection run

----------------------------------------------------------------------------
(* Characters and Python's str methods *)

UPPER == <<"A","B","C","D","E","F","G","H","I","J","K","L","M",
           "N","O","P","Q","R","S","T","U","V","W","X","Y","Z">>
LOWER == <<"a","b","c","d","e","f","g","h","i","j","k","l","m",
           "n","o","p","q","r","s","t","u","v","w","x","y","z">>
DIGITS == {"0","1","2","3","4","5","6","7","8","9"}

Range(s) == {s[i] : i \in DOMAIN s}
Min(a, b) == IF a <= b THEN a ELSE b

SpaceChars == {" ", "\t", "\n"}
AlnumChars == Range(UPPER) \cup Range(LOWER) \cup DIGITS
UpperChars == Range(UPPER)

\* c.isspace(), c.isalnum()
IsSpace(c) == c \in SpaceChars
IsAlnum(c) == c \in AlnumChars

LowerChar(c) ==
    IF c \in UpperChars THEN LOWER[CHOOSE i \in DOMAIN UPPER : UPPER[i] = c] ELSE c

\* str.lower()
RECURSIVE StrLower(_)
StrLower(s) == IF s = <<>> THEN <<>> ELSE <<LowerChar(Head(s))>> \o StrLower(Tail(s))

RECURSIVE LStrip(_)
LStrip(s) == IF s # <<>> /\ IsSpace(Head(s)) THEN LStrip(Tail(s)) ELSE s

RECURSIVE RStrip(_)
RStrip(s) ==
    IF s # <<>> /\ IsSpace(s[Len(s)]) THEN RStrip(SubSeq(s, 1, Len(s) - 1)) ELSE s

\* str.strip()
Strip(s) == RStrip(LStrip(s))

\* s[:n] for n >= 0
Take(s, n) == SubSeq(s, 1, Min(n, Len(s)))

\* sub in s
Contains(s, sub) ==
    \E i \in 0..(Len(s) - Len(sub)) : SubSeq(s, i + 1, i + Len(sub)) = sub

\* s.endswith(c)
EndsWith(s, chars) == s # <<>> /\ s[Len(s)] \in chars

\* c * n
Repeat(c, n) == [i \in 1..n |-> c]

RECURSIVE Flatten(_)
Flatten(ss) == IF ss = <<>> THEN <<>> ELSE Head(ss) \o Flatten(Tail(ss))

----------------------------------------------------------------------------
(* The decoder's data: blocks, lines, spans *)

Span(t, z) == [text |-> t, size |-> z]
TextBlock(spans) == [type |-> 0, lines |-> << [spans |-> spans] >>]
ImageBlock == [type |-> 1, lines |-> <<>>]
PageBreak == [type |-> -1, lines |-> <<>>]

\* for block in blocks: if block["type"] == 0: for line ...: for span ...
RECURSIVE LineSpans(_)
LineSpans(lines) ==
    IF lines = <<>> THEN <<>> ELSE Head(lines).spans \o LineSpans(Tail(lines))

RECURSIVE PageSpans(_)
PageSpans(blocks) ==
    IF blocks = <<>> THEN <<>>
    ELSE (IF Head(blocks).type = 0 THEN LineSpans(Head(blocks).lines) ELSE <<>>)
         \o PageSpans(Tail(blocks))

----------------------------------------------------------------------------
(* Challenge_1a: PDFOutlineExtractor *)

NoneValue == [tag |-> "None"]

\* font_counter[span["size"]] += 1 over the qualifying spans, as the pair
\* (sizes in first-insertion order, count per size)
RECURSIVE CountSizes(_, _, _)
CountSizes(spans, minlen, acc) ==
    IF spans = <<>> THEN acc
    ELSE LET sp == Head(spans)
             hit == Len(Strip(sp.text)) >= minlen
             seen == \E i \in DOMAIN acc.order : acc.order[i] = sp.size
             next ==
                 IF ~hit THEN acc
                 ELSE IF seen
                      THEN [order |-> acc.order,
                            count |-> [acc.count EXCEPT ![sp.size] = @ + 1]]
                      ELSE [order |-> Append(acc.order, sp.size),
                            count |-> [z \in DOMAIN acc.count \cup {sp.size} |->
                                          IF z = sp.size THEN 1 ELSE acc.count[z]]]
         IN CountSizes(Tail(spans), minlen, next)

FontCounter(pages, minlen) ==
    CountSizes(Flatten([p \in DOMAIN pages |-> PageSpans(pages[p])]), minlen,
               [order |-> <<>>, count |-> <<>>])

\* Counter.most_common(): by count descending, equal counts in insertion order
RECURSIVE InsertByCount(_, _, _)
InsertByCount(sorted, z, count) ==
    IF sorted = <<>> THEN <<z>>
    ELSE IF count[Head(sorted)] >= count[z]
         THEN <<Head(sorted)>> \o InsertByCount(Tail(sorted), z, count)
         ELSE <<z>> \o sorted

RECURSIVE MostCommonFrom(_, _, _)
MostCommonFrom(order, count, acc) ==
    IF order = <<>> THEN acc
    ELSE MostCommonFrom(Tail(order), count, InsertByCount(acc, Head(order), count))

MostCommon(fc) == MostCommonFrom(fc.order, fc.count, <<>>)

\* sorted(set(...), reverse=True)
RECURSIVE SortedDesc(_)
SortedDesc(S) ==
    IF S = {} THEN <<>>
    ELSE LET m == CHOOSE x \in S : \A y \in S : y <= x
         IN <<m>> \o SortedDesc(S \ {m})

\* variant: the K most frequent sizes, then sorted
TopSizesFreqFirst(pages, minlen, K) ==
    SortedDesc(Range(Take(MostCommon(FontCounter(pages, minlen)), K)))

\* top_sizes of _analyze_font_sizes: every counted size, sorted, then cut to K
TopSizes(pages, minlen, K) ==
    Take(SortedDesc(Range(MostCommon(FontCounter(pages, minlen)))), K)

\* {size: f"H{i+1}" for i, size in enumerate(top_sizes)}
AnalyzeFontSizes(pages, minlen, K) ==
    LET top == TopSizes(pages, minlen, K)
    IN [z \in Range(top) |-> <<"H", CHOOSE i \in DOMAIN top : top[i] = z>>]

\* variant: without the alphanumeric-ratio check
IsLikelyHeadingNoRatio(text) ==
    IF Len(text) > 200 THEN FALSE
    ELSE IF EndsWith(text, {".", "!", "?", ";"}) THEN FALSE
    ELSE TRUE

\* _is_likely_heading, for a text of length >= 1 (the caller has checked
\* len(text) >= min_heading_length)
IsLikelyHeading(text) ==
    IF 2 * Cardinality({i \in DOMAIN text : IsAlnum(text[i])}) < Len(text) THEN FALSE
    ELSE IF Len(text) > 200 THEN FALSE
    ELSE IF EndsWith(text, {".", "!", "?", ";"}) THEN FALSE
    ELSE TRUE

\* variant: without the `text in processed_texts` check
RECURSIVE HeadingsLoopNoSeen(_, _, _, _, _, _)
HeadingsLoopNoSeen(spans, pnum, s2l, minlen, headings, processed_texts) ==
    IF spans = <<>> THEN headings
    ELSE LET sp == Head(spans)
             text == Strip(sp.text)
             skip == \/ Len(text) < minlen
                     \/ sp.size \notin DOMAIN s2l
         IN IF ~skip /\ IsLikelyHeading(text)
            THEN HeadingsLoopNoSeen(Tail(spans), pnum, s2l, minlen,
                     Append(headings, [level |-> s2l[sp.size], text |-> text,
                                       page |-> pnum, font_size |-> sp.size]),
                     processed_texts \cup {text})
            ELSE HeadingsLoopNoSeen(Tail(spans), pnum, s2l, minlen, headings,
                                    processed_texts)

\* the span loop of _extract_headings_from_page
RECURSIVE HeadingsLoop(_, _, _, _, _, _)
HeadingsLoop(spans, pnum, s2l, minlen, headings, processed_texts) ==
    IF spans = <<>> THEN headings
    ELSE LET sp == Head(spans)
             text == Strip(sp.text)
             skip == \/ Len(text) < minlen
                     \/ text \in processed_texts
                     \/ sp.size \notin DOMAIN s2l
         IN IF ~skip /\ IsLikelyHeading(text)
            THEN HeadingsLoop(Tail(spans), pnum, s2l, minlen,
                     Append(headings, [level |-> s2l[sp.size], text |-> text,
                                       page |-> pnum, font_size |-> sp.size]),
                     processed_texts \cup {text})
            ELSE HeadingsLoop(Tail(spans), pnum, s2l, minlen, headings,
                              processed_texts)

ExtractHeadingsFromPage(page, pnum, s2l, minlen) ==
    HeadingsLoop(PageSpans(page), pnum, s2l, minlen, <<>>, {})

\* heading.pop('font_size', None)
PopFontSize(h) == [level |-> h.level, text |-> h.text, page |-> h.page]

\* variant: a dictionary with an empty outline counts as false
TruthyNonEmptyOutline(v) == v.tag = "dict" /\ v.headings_found > 0

\* `if outline_data:` - None is false, the four-key dictionary is true
Truthy(v) == v.tag = "dict"


----------------------------------------------------------------------------
(* Input pools of the outline extractor *)

DefaultMinHeadingLength == 4
DefaultMaxHeadingLevels == 3

Chapter1 == <<"C","h","a","p","t","e","r"," ","1">>
Chapter1Padded == <<" ">> \o Chapter1 \o <<" ", " ">>
IntroductionDot == <<"I","n","t","r","o","d","u","c","t","i","o","n",".">>
Abc == <<"A","b","c">>
Dashes == <<"-","-","1","-","-">>
LongText == Repeat("a", 201)
HalfAlnum200 == Repeat("a", 100) \o Repeat("-", 100)

BlockPool ==
    { ImageBlock,
      TextBlock(<<Span(Chapter1, 18)>>),
      TextBlock(<<Span(Chapter1Padded, 14), Span(Chapter1, 18)>>),
      TextBlock(<<Span(IntroductionDot, 24)>>),
      TextBlock(<<Span(Abc, 18)>>),
      TextBlock(<<Span(Dashes, 12)>>),
      TextBlock(<<Span(LongText, 14)>>),
      TextBlock(<<Span(HalfAlnum200, 12)>>) }

Tokens == BlockPool \cup {PageBreak}
TokenSeqs(n) == UNION {[1..k -> Tokens] : k \in 0..n}

\* the pages a token sequence lays out: a page break starts a new page
RECURSIVE SplitPages(_)
SplitPages(t) ==
    IF t = <<>> THEN << <<>> >>
    ELSE LET rest == SplitPages(Tail(t))
         IN IF Head(t).type = -1
            THEN << <<>> >> \o rest
            ELSE << <<Head(t)>> \o Head(rest) >> \o Tail(rest)

\* documents of at most n tokens, and the document without pages
Documents(n) == {<<>>} \cup {SplitPages(t) : t \in TokenSeqs(n)}

\* a file: whether fitz.open succeeds, its pages, the page whose get_text
\* raises (0: none), whether its output file can be written
ReadableFiles(n) ==
    {[openable |-> TRUE, pages |-> d, bad_page |-> 0, writable |-> TRUE] :
        d \in Documents(n)}

BatchFiles ==
    LET docs == Documents(BatchTokens)
    IN {[openable |-> FALSE, pages |-> <<>>, bad_page |-> 0, writable |-> TRUE]}
       \cup UNION {{[openable |-> TRUE, pages |-> d, bad_page |-> b, writable |-> w] :
                       b \in 0..Len(d), w \in BOOLEAN} : d \in docs}

OutlineFiles == ReadableFiles(MaxTokens) \cup BatchFiles

----------------------------------------------------------------------------
(* Challenge_1a: extract_outline and process_pdfs, step by step *)

IdleA ==
    /\ min_heading_length = DefaultMinHeadingLength
    /\ max_heading_levels = DefaultMaxHeadingLevels
    /\ num_files = 0
    /\ idx = 0
    /\ file = NoneValue
    /\ pc = "idle"
    /\ open_handles = {}
    /\ size_to_level = <<>>
    /\ page_num = 0
    /\ all_headings = <<>>
    /\ outline_data = NoneValue
    /\ successful = 0
    /\ failed = 0
    /\ outputs = {}

IdleB ==
    /\ max_sections = 0
    /\ max_text_length = 0
    /\ config_data = NoneValue
    /\ combined_keywords = <<>>
    /\ bpc = "idle"
    /\ didx = 0
    /\ handles = {}
    /\ bpage = 0
    /\ relevant_sections = <<>>
    /\ detailed_subsections = <<>>
    /\ all_relevant_sections = <<>>
    /\ all_detailed_subsections = <<>>
    /\ processed_documents = <<>>
    /\ processing_results = NoneValue
    /\ read_log = <<>>

\* a caller hands one file to extract_outline
InitOutline ==
    /\ IdleB
    /\ min_heading_length = DefaultMinHeadingLength
    /\ max_heading_levels \in 1..DefaultMaxHeadingLevels
    /\ num_files = 1
    /\ idx = 1
    /\ file \in OutlineFiles
    /\ pc = "open"
    /\ open_handles = {}
    /\ size_to_level = <<>>
    /\ page_num = 0
    /\ all_headings = <<>>
    /\ outline_data = NoneValue
    /\ successful = 0
    /\ failed = 0
    /\ outputs = {}

\* process_pdfs after pdf_files = list(input_path.glob("*.pdf"))
InitBatch ==
    /\ IdleB
    /\ min_heading_length = DefaultMinHeadingLength
    /\ max_heading_levels = DefaultMaxHeadingLevels
    /\ num_files \in 0..MaxFiles
    /\ idx = 0
    /\ file = NoneValue
    /\ pc = "start"
    /\ open_handles = {}
    /\ size_to_level = <<>>
    /\ page_num = 0
    /\ all_headings = <<>>
    /\ outline_data = NoneValue
    /\ successful = 0
    /\ failed = 0
    /\ outputs = {}

\* if not pdf_files: return; else successful = failed = 0
StartBatch ==
    /\ pc = "start"
    /\ pc' = IF num_files = 0 THEN "done" ELSE "loop"
    /\ UNCHANGED <<min_heading_length, max_heading_levels, num_files, idx, file,
                   open_handles, size_to_level, page_num, all_headings,
                   outline_data, successful, failed, outputs>>
    /\ UNCHANGED varsB

\* for pdf_file in pdf_files: extractor.extract_outline(pdf_file)
NextFile ==
    /\ pc = "loop"
    /\ idx < num_files
    /\ \E f \in BatchFiles : file' = f
    /\ idx' = idx + 1
    /\ pc' = "open"
    /\ UNCHANGED <<min_heading_length, max_heading_levels, num_files,
                   open_handles, size_to_level, page_num, all_headings,
                   outline_data, successful, failed, outputs>>
    /\ UNCHANGED varsB

\* with fitz.open(pdf_path) as doc - or the exception it raises
OpenDocument ==
    /\ pc = "open"
    /\ IF file.openable
       THEN /\ open_handles' = open_handles \cup {idx}
            /\ pc' = "analyze"
            /\ UNCHANGED outline_data
       ELSE /\ outline_data' = NoneValue
            /\ pc' = "returned"
            /\ UNCHANGED open_handles
    /\ size_to_level' = <<>>
    /\ all_headings' = <<>>
    /\ page_num' = 0
    /\ UNCHANGED <<min_heading_length, max_heading_levels, num_files, idx, file,
                   successful, failed, outputs>>
    /\ UNCHANGED varsB

\* len(doc) == 0, then _analyze_font_sizes; `with` closes doc on every return
AnalyzeDocument ==
    /\ pc = "analyze"
    /\ LET m == AnalyzeFontSizes(file.pages, min_heading_length, max_heading_levels)
           absent == \/ Len(file.pages) = 0
                     \/ file.bad_page # 0
                     \/ DOMAIN m = {}
       IN IF absent
          THEN /\ outline_data' = NoneValue
               /\ open_handles' = open_handles \ {idx}
               /\ pc' = "returned"
               /\ UNCHANGED <<size_to_level, page_num>>
          ELSE /\ size_to_level' = m
               /\ page_num' = 1
               /\ pc' = "extract"
               /\ UNCHANGED <<outline_data, open_handles>>
    /\ UNCHANGED <<min_heading_length, max_heading_levels, num_files, idx, file,
                   all_headings, successful, failed, outputs>>
    /\ UNCHANGED varsB

\* one turn of: for page_num, page in enumerate(doc, start=1)
ExtractPage ==
    /\ pc = "extract"
    /\ page_num <= Len(file.pages)
    /\ all_headings' = all_headings \o
           ExtractHeadingsFromPage(file.pages[page_num], page_num, size_to_level,
                                   min_heading_length)
    /\ page_num' = page_num + 1
    /\ UNCHANGED <<min_heading_length, max_heading_levels, num_files, idx, file, pc,
                   open_handles, size_to_level, outline_data, successful, failed,
                   outputs>>
    /\ UNCHANGED varsB

\* the loop is over: pop font_size, build the dictionary, leave the `with`
ReturnOutline ==
    /\ pc = "extract"
    /\ page_num > Len(file.pages)
    /\ outline_data' =
           [tag |-> "dict",
            title |-> idx,
            outline |-> [i \in DOMAIN all_headings |-> PopFontSize(all_headings[i])],
            total_pages |-> Len(file.pages),
            headings_found |-> Len(all_headings)]
    /\ open_handles' = open_handles \ {idx}
    /\ pc' = "returned"
    /\ UNCHANGED <<min_heading_length, max_heading_levels, num_files, idx, file,
                   size_to_level, page_num, all_headings, successful, failed,
                   outputs>>
    /\ UNCHANGED varsB

\* if outline_data: write the JSON, successful += 1 (failed += 1 when the
\* write raises); else failed += 1
Tally ==
    /\ pc = "returned"
    /\ IF Truthy(outline_data) /\ file.writable
       THEN /\ outputs' = outputs \cup {idx}
            /\ successful' = successful + 1
            /\ UNCHANGED failed
       ELSE /\ failed' = failed + 1
            /\ UNCHANGED <<outputs, successful>>
    /\ pc' = "loop"
    /\ UNCHANGED <<min_heading_length, max_heading_levels, num_files, idx, file,
                   open_handles, size_to_level, page_num, all_headings,
                   outline_data>>
    /\ UNCHANGED varsB

\* the loop is exhausted: the summary is printed
FinishBatch ==
    /\ pc = "loop"
    /\ idx = num_files
    /\ pc' = "done"
    /\ UNCHANGED <<min_heading_length, max_heading_levels, num_files, idx, file,
                   open_handles, size_to_level, page_num, all_headings,
                   outline_data, successful, failed, outputs>>
    /\ UNCHANGED varsB

NextOutline == OpenDocument \/ AnalyzeDocument \/ ExtractPage \/ ReturnOutline

NextBatch ==
    \/ StartBatch \/ NextFile \/ OpenDocument \/ AnalyzeDocument \/ ExtractPage
    \/ ReturnOutline \/ Tally \/ FinishBatch

SpecOutline == InitOutline /\ [][NextOutline]_vars
SpecBatch == InitBatch /\ [][NextBatch]_vars


----------------------------------------------------------------------------
(* Challenge_1b: PDFDocumentProcessor *)

\* str.split(): the maximal runs of non-whitespace characters
RECURSIVE SplitWs(_)
SplitWs(s) ==
    LET t == LStrip(s)
    IN IF t = <<>> THEN <<>>
       ELSE LET stops == {i \in DOMAIN t : IsSpace(t[i])} \cup {Len(t) + 1}
                n == CHOOSE i \in stops : \A j \in stops : i <= j
            IN <<SubSeq(t, 1, n - 1)>> \o SplitWs(SubSeq(t, n, Len(t)))

\* " ".join(text_blocks)
RECURSIVE JoinSpace(_)
JoinSpace(texts) ==
    IF texts = <<>> THEN <<>>
    ELSE IF Len(texts) = 1 THEN Head(texts)
    ELSE Head(texts) \o <<" ">> \o JoinSpace(Tail(texts))

\* f"{persona_role} {task_description}".lower().split()
CombinedKeywords(role, task) == SplitWs(StrLower(role \o <<" ">> \o task))

\* sum(1 for keyword in keywords if keyword in text_lower)
CalculateRelevanceScore(text, keywords) ==
    LET text_lower == StrLower(text)
    IN Cardinality({i \in DOMAIN keywords : Contains(text_lower, keywords[i])})

\* extract_page_text
ExtractPageText(page) ==
    LET spans == PageSpans(page)
    IN JoinSpace([i \in DOMAIN spans |-> spans[i].text])

\* if not page_text.strip(): continue
IsBlankPage(page_text) == Strip(page_text) = <<>>

\* variant: one matching keyword is enough
AboveThresholdFromOne(score) == score >= 1

\* if relevance_score > 1
AboveThreshold(score) == score > 1

\* variant: without the cut
RefinedTextUncut(page_text, maxlen) == Strip(page_text)

\* page_text.strip()[:self.max_text_length]
RefinedText(page_text, maxlen) == Take(Strip(page_text), maxlen)

RelevantSection(filename, pnum, score) ==
    [document |-> filename, section_title |-> <<"Page", pnum>>,
     importance_rank |-> score, page_number |-> pnum]

DetailedSubsection(filename, pnum, page_text, maxlen) ==
    [document |-> filename, refined_text |-> RefinedText(page_text, maxlen),
     page_number |-> pnum]

\* variant: the handler returns what was collected before the failure
PartialResult(collected) == collected

\* except Exception: return [], []
ErrorResult(collected) == <<>>

\* variant: an entry goes before the entries of equal rank
RECURSIVE InsertByRankFirst(_, _)
InsertByRankFirst(sorted, x) ==
    IF sorted = <<>> THEN <<x>>
    ELSE IF Head(sorted).importance_rank > x.importance_rank
         THEN <<Head(sorted)>> \o InsertByRankFirst(Tail(sorted), x)
         ELSE <<x>> \o sorted

\* sorted(..., key=importance_rank, reverse=True): equal ranks keep their order
RECURSIVE InsertByRank(_, _)
InsertByRank(sorted, x) ==
    IF sorted = <<>> THEN <<x>>
    ELSE IF Head(sorted).importance_rank >= x.importance_rank
         THEN <<Head(sorted)>> \o InsertByRank(Tail(sorted), x)
         ELSE <<x>> \o sorted

RECURSIVE SortedByRankFrom(_, _)
SortedByRankFrom(sections, acc) ==
    IF sections = <<>> THEN acc
    ELSE SortedByRankFrom(Tail(sections), InsertByRank(acc, Head(sections)))

SortedByRank(sections) == SortedByRankFrom(sections, <<>>)

\* sorted(...)[:self.max_sections]
TopSections(sections, n) == Take(SortedByRank(sections), n)

----------------------------------------------------------------------------
(* Input pools of the relevance ranker *)

DefaultMaxSections == 5
DefaultMaxTextLength == 500

SectionLimits == {1, 2, DefaultMaxSections}
TextLimits == {4, DefaultMaxTextLength}

Configs ==
    { [role |-> <<"B","u","d","g","e","t">>,
       task |-> <<"O","v","e","r","v","i","e","w"," "," ","2","0","2","4">>],
      [role |-> <<"D","a","t","a"," ","A","n","a","l","y","s","t">>,
       task |-> <<"b","u","d","g","e","t","\t","d","a","t","a">>] }

TextPage(texts) == << TextBlock([i \in DOMAIN texts |-> Span(texts[i], 11)]) >>

PagePool ==
    { TextPage(<< <<"B","u","d","g","e","t"," ","O","v","e","r","v","i","e","w">> >>),
      TextPage(<< <<" ">>, <<"D","a","t","a">>,
                  <<"2","0","2","4"," ","b","u","d","g","e","t"," ","o","v","e","r","v","i","e","w">> >>),
      <<ImageBlock, TextBlock(<< Span(<<" ", " ">>, 11) >>)>> }

----------------------------------------------------------------------------
(* Challenge_1b: process_document_collection, step by step *)

\* process_document_collection is entered; the configuration file holds one
\* of Configs or cannot be loaded
InitRanker ==
    /\ IdleA
    /\ max_sections \in SectionLimits
    /\ max_text_length \in TextLimits
    /\ \E c \in Configs, n \in 0..MaxDocs, ok \in BOOLEAN :
          config_data = [loads |-> ok, role |-> c.role, task |-> c.task,
                         documents |-> [i \in 1..n |-> i]]
    /\ combined_keywords = <<>>
    /\ bpc = "start"
    /\ didx = 0
    /\ handles = {}
    /\ bpage = 0
    /\ relevant_sections = <<>>
    /\ detailed_subsections = <<>>
    /\ all_relevant_sections = <<>>
    /\ all_detailed_subsections = <<>>
    /\ processed_documents = <<>>
    /\ processing_results = NoneValue
    /\ read_log = <<>>

PagesReadSoFar == Len(Flatten([i \in DOMAIN read_log |-> read_log[i].pages]))

\* load_configuration, the keyword list, the empty accumulators
LoadConfiguration ==
    /\ bpc = "start"
    /\ IF config_data.loads
       THEN /\ combined_keywords' = CombinedKeywords(config_data.role, config_data.task)
            /\ bpc' = "loop"
       ELSE /\ bpc' = "raised"
            /\ UNCHANGED combined_keywords
    /\ UNCHANGED <<max_sections, max_text_length, config_data, didx, handles, bpage,
                   relevant_sections, detailed_subsections, all_relevant_sections,
                   all_detailed_subsections, processed_documents,
                   processing_results, read_log>>
    /\ UNCHANGED varsA

\* for doc_info in document_list: append the filename, enter
\* process_pdf_document: pdf_path.exists(), fitz.open(pdf_path)
BeginDocument ==
    /\ bpc = "loop"
    /\ didx < Len(config_data.documents)
    /\ didx' = didx + 1
    /\ processed_documents' = Append(processed_documents, config_data.documents[didx'])
    /\ \E exists \in BOOLEAN, openable \in BOOLEAN :
          /\ (~exists => ~openable)
          /\ read_log' = Append(read_log, [exists |-> exists, openable |-> openable,
                                           pages |-> <<>>, raised |-> FALSE])
          /\ IF openable
             THEN /\ handles' = handles \cup {didx'}
                  /\ bpc' = "pages"
             ELSE /\ bpc' = "loop"
                  /\ UNCHANGED handles
    /\ relevant_sections' = <<>>
    /\ detailed_subsections' = <<>>
    /\ bpage' = 1
    /\ UNCHANGED <<max_sections, max_text_length, config_data, combined_keywords,
                   all_relevant_sections, all_detailed_subsections,
                   processing_results>>
    /\ UNCHANGED varsA

\* one turn of the page loop on a page whose text can be read
ReadPage ==
    /\ bpc = "pages"
    /\ PagesReadSoFar < MaxPagesRead
    /\ \E page \in PagePool :
          LET page_text == ExtractPageText(page)
              relevance_score == CalculateRelevanceScore(page_text, combined_keywords)
              filename == config_data.documents[didx]
          IN /\ read_log' = [read_log EXCEPT ![didx].pages = Append(@, page)]
             /\ IF ~IsBlankPage(page_text) /\ AboveThreshold(relevance_score)
                THEN /\ relevant_sections' =
                            Append(relevant_sections,
                                   RelevantSection(filename, bpage, relevance_score))
                     /\ detailed_subsections' =
                            Append(detailed_subsections,
                                   DetailedSubsection(filename, bpage, page_text,
                                                      max_text_length))
                ELSE UNCHANGED <<relevant_sections, detailed_subsections>>
    /\ bpage' = bpage + 1
    /\ UNCHANGED <<max_sections, max_text_length, config_data, combined_keywords, bpc,
                   didx, handles, all_relevant_sections, all_detailed_subsections,
                   processed_documents, processing_results>>
    /\ UNCHANGED varsA

\* reading the next page raises: except Exception returns [], [] and the
\* caller extends by them.  No doc.close() is on this path; whether the
\* runtime reclaims the document object before the next open is not decided
\* by the code.
ReadPageFails ==
    /\ bpc = "pages"
    /\ read_log' = [read_log EXCEPT ![didx].raised = TRUE]
    /\ all_relevant_sections' = all_relevant_sections \o ErrorResult(relevant_sections)
    /\ all_detailed_subsections' =
           all_detailed_subsections \o ErrorResult(detailed_subsections)
    /\ handles' \in {handles, handles \ {didx}}
    /\ bpc' = "loop"
    /\ UNCHANGED <<max_sections, max_text_length, config_data, combined_keywords,
                   didx, bpage, relevant_sections, detailed_subsections,
                   processed_documents, processing_results>>
    /\ UNCHANGED varsA

\* the page loop ends: doc.close(), return, the caller extends its lists
CloseDocument ==
    /\ bpc = "pages"
    /\ handles' = handles \ {didx}
    /\ all_relevant_sections' = all_relevant_sections \o relevant_sections
    /\ all_detailed_subsections' = all_detailed_subsections \o detailed_subsections
    /\ bpc' = "loop"
    /\ UNCHANGED <<max_sections, max_text_length, config_data, combined_keywords,
                   didx, bpage, relevant_sections, detailed_subsections,
                   processed_documents, processing_results, read_log>>
    /\ UNCHANGED varsA

\* the document loop is over: sort, cut, build processing_results and hand it
\* to save_results
SortAndSave ==
    /\ bpc = "loop"
    /\ didx = Len(config_data.documents)
    /\ processing_results' =
           [tag |-> "dict",
            metadata |-> [input_documents |-> processed_documents,
                          persona |-> config_data.role,
                          job_to_be_done |-> config_data.task],
            extracted_sections |-> TopSections(all_relevant_sections, max_sections),
            subsection_analysis |-> all_detailed_subsections]
    /\ bpc' = "done"
    /\ UNCHANGED <<max_sections, max_text_length, config_data, combined_keywords,
                   didx, handles, bpage, relevant_sections, detailed_subsections,
                   all_relevant_sections, all_detailed_subsections,
                   processed_documents, read_log>>
    /\ UNCHANGED varsA

NextRanker ==
    \/ LoadConfiguration \/ BeginDocument \/ ReadPage \/ ReadPageFails
    \/ CloseDocument \/ SortAndSave

SpecRanker == InitRanker /\ [][NextRanker]_vars

----------------------------------------------------------------------------
(* What the claims about the outline extractor speak of *)

HealthyFile == file.openable /\ file.bad_page = 0 /\ Len(file.pages) > 0

\* positions <<page, span>> of the document in document order
SpanAt(pos) == PageSpans(file.pages[pos[1]])[pos[2]]
PositionsOfPage(p) == [j \in 1..Len(PageSpans(file.pages[p])) |-> <<p, j>>]
PositionsUpTo(n) == Flatten([p \in 1..n |-> PositionsOfPage(p)])
TrimmedText(pos) == Strip(SpanAt(pos).text)

LongEnough(pos) == Len(TrimmedText(pos)) >= min_heading_length
QualifyingSizes ==
    {SpanAt(pos).size : pos \in {q \in Range(PositionsUpTo(Len(file.pages))) : LongEnough(q)}}

AlnumCount(t) == Cardinality({i \in DOMAIN t : IsAlnum(t[i])})
FilterAccepts(t) ==
    /\ 2 * AlnumCount(t) >= Len(t)
    /\ Len(t) <= 200
    /\ t[Len(t)] \notin {".", "!", "?", ";"}

SizeMapped(pos) == SpanAt(pos).size \in DOMAIN size_to_level

RECURSIVE Emitted(_)
Emitted(pos) ==
    /\ LongEnough(pos)
    /\ ~ \E j \in 1..(pos[2] - 1) :
            Emitted(<<pos[1], j>>) /\ TrimmedText(<<pos[1], j>>) = TrimmedText(pos)
    /\ SizeMapped(pos)
    /\ FilterAccepts(TrimmedText(pos))

CandidateOf(pos) ==
    [level |-> size_to_level[SpanAt(pos).size], text |-> TrimmedText(pos),
     page |-> pos[1]]

ExpectedOutline(n) ==
    LET kept == SelectSeq(PositionsUpTo(n), Emitted)
    IN [i \in DOMAIN kept |-> CandidateOf(kept[i])]

Popped(hs) == [i \in DOMAIN hs |-> PopFontSize(hs[i])]

\* texts on which the heading filter is compared with its description
FilterTexts ==
    { Chapter1, IntroductionDot, Dashes, LongText, HalfAlnum200,
      Repeat("a", 200), <<"W","h","y","?">>, <<"S","t","o","p","!">>,
      <<"a","b","c",";">>, <<"1","2","3","4">>, <<"#","1","-","2">>,
      <<"a","-","-">>, <<".">>, <<"a">> }

FilterAsDescribed == \A t \in FilterTexts : IsLikelyHeading(t) = FilterAccepts(t)

C8_NoDuplicateOnPage ==
    (pc = "returned" /\ Truthy(outline_data)) =>
        LET o == outline_data.outline
        IN /\ \A i, j \in DOMAIN o :
                 (o[i].text = o[j].text /\ o[i].page = o[j].page) => i = j
           /\ \A pos \in Range(PositionsUpTo(Len(file.pages))) :
                 (LongEnough(pos) /\ SizeMapped(pos) /\ FilterAccepts(TrimmedText(pos)))
                 => Cardinality({i \in DOMAIN o : /\ o[i].text = TrimmedText(pos)
                                                   /\ o[i].page = pos[1]}) = 1

\* C8 witness: "Chapter 1" twice on page 1 at two mapped sizes and once on
\* page 2: one candidate on page 1, a second on page 2
C8_Witness ==
    /\ pc = "returned"
    /\ Truthy(outline_data)
    /\ Len(file.pages) = 2
    /\ \E i, j \in DOMAIN PageSpans(file.pages[1]) :
          /\ i < j
          /\ TrimmedText(<<1, i>>) = Chapter1
          /\ TrimmedText(<<1, j>>) = Chapter1
          /\ SpanAt(<<1, i>>).size # SpanAt(<<1, j>>).size
          /\ SizeMapped(<<1, i>>) /\ SizeMapped(<<1, j>>)
    /\ Len(outline_data.outline) = 2
    /\ outline_data.outline[1].text = Chapter1 /\ outline_data.outline[1].page = 1
    /\ outline_data.outline[2].text = Chapter1 /\ outline_data.outline[2].page = 2


\* C10: extract_outline returns None exactly when the file cannot be opened,
\* has no page, cannot be read or has no qualifying span, and a dictionary
\* otherwise (also with an empty outline); process_pdfs writes an output only
\* for a dictionary, counts every other file as failed, returns to the loop
\* after every file, and ends with successful + failed = len(pdf_files).
C10_AbsentResultAndTally ==
    /\ pc = "returned" =>
        /\ (outline_data = NoneValue) =
              (\/ ~file.openable
               \/ Len(file.pages) = 0
               \/ file.bad_page # 0
               \/ QualifyingSizes = {})
        /\ outline_data # NoneValue =>
              /\ outline_data.tag = "dict"
              /\ outline_data.total_pages = Len(file.pages)
              /\ outline_data.headings_found = Len(outline_data.outline)
    /\ pc \in {"loop", "done"} =>
        /\ successful + failed = idx
        /\ successful = Cardinality(outputs)
        /\ outputs \subseteq 1..idx
        /\ idx >= 1 => ((idx \in outputs) = (outline_data # NoneValue /\ file.writable))
    /\ (pc = "done" /\ num_files > 0) =>
        /\ idx = num_files
        /\ successful + failed = num_files
    /\ pc = "loop" => idx <= num_files
    /\ pc \in {"start", "loop", "open", "analyze", "extract", "returned", "done"}

\* C10 witness: the first file gave None and was counted as failed, and the
\* second file is being opened
C10_Witness ==
    /\ pc = "open"
    /\ idx = 2
    /\ outline_data = NoneValue
    /\ failed = 1
    /\ successful = 0
    /\ outputs = {}

----------------------------------------------------------------------------
(* What the claims about the relevance ranker speak of *)

LogPageText(i, k) == ExtractPageText(read_log[i].pages[k])
LogScore(i, k) == CalculateRelevanceScore(LogPageText(i, k), combined_keywords)
PageQualifies(i, k) ==
    LET text == LogPageText(i, k)
    IN Strip(text) # <<>> /\ CalculateRelevanceScore(text, combined_keywords) > 1
QualifyingPages(i) ==
    SelectSeq([k \in 1..Len(read_log[i].pages) |-> k], LAMBDA k : PageQualifies(i, k))
DocFailed(i) == ~read_log[i].exists \/ ~read_log[i].openable \/ read_log[i].raised

\* the number of distinct keyword words present in the lowercased text
DistinctKeywordsPresent(text) ==
    LET text_lower == StrLower(text)
    IN Cardinality({w \in Range(combined_keywords) : Contains(text_lower, w)})

\* <<document, page_number>> of each record of a list
Keys(records) == [i \in DOMAIN records |-> <<records[i].document, records[i].page_number>>]

\* <<document, page>> of the qualifying pages of document i
KeysOfDocument(i) ==
    LET q == QualifyingPages(i) IN [j \in DOMAIN q |-> <<i, q[j]>>]

\* the same for the documents 1..n that did not fail, in encounter order
QualifyingKeys(n) ==
    Flatten([i \in 1..n |-> IF DocFailed(i) THEN <<>> ELSE KeysOfDocument(i)])

\* what process_pdf_document returns for document i when it does not fail
AloneSections(i) ==
    LET q == QualifyingPages(i)
    IN [j \in DOMAIN q |->
           RelevantSection(config_data.documents[i], q[j], LogScore(i, q[j]))]
AloneSubsections(i) ==
    LET q == QualifyingPages(i)
    IN [j \in DOMAIN q |->
           DetailedSubsection(config_data.documents[i], q[j], LogPageText(i, q[j]),
                              max_text_length)]

\* C1 (as claimed): the score recorded for a page is the number of distinct
\* keyword words that occur in its lowercased text.
C1_PresenceCountOverKeywordSet ==
    \A i \in DOMAIN read_log : \A k \in DOMAIN read_log[i].pages :
        /\ LogScore(i, k) = DistinctKeywordsPresent(LogPageText(i, k))
        /\ \A r \in Range(relevant_sections) \cup Range(all_relevant_sections) :
              (r.document = config_data.documents[i] /\ r.page_number = k)
              => r.importance_rank = DistinctKeywordsPresent(LogPageText(i, k))

\* C4: extracted_sections is the first max_sections entries of the stable
\* descending-by-score order of the recorded sections: its length is
\* min(N, recorded), ranks do not increase along it, no omitted entry outranks
\* an included one, and entries of equal rank (kept or cut) stay in encounter
\* order.
C4_RankedList ==
    bpc = "done" =>
        LET out == processing_results.extracted_sections
            all == all_relevant_sections
            PosOf(i) == CHOOSE j \in DOMAIN all : all[j] = out[i]
            kept == {PosOf(i) : i \in DOMAIN out}
        IN /\ Len(out) = Min(max_sections, Len(all))
           /\ \A i \in DOMAIN out : \E j \in DOMAIN all : all[j] = out[i]
           /\ Cardinality(kept) = Len(out)
           /\ \A i, k \in DOMAIN out :
                 i < k => /\ out[i].importance_rank >= out[k].importance_rank
                          /\ (out[i].importance_rank = out[k].importance_rank
                              => PosOf(i) < PosOf(k))
           /\ \A j \in DOMAIN all \ kept : \A i \in DOMAIN out :
                 /\ all[j].importance_rank <= out[i].importance_rank
                 /\ (all[j].importance_rank = out[i].importance_rank => PosOf(i) < j)

\* C4 witness: two sections of equal rank were recorded and max_sections
\* keeps one: the one met first
C4_Witness ==
    /\ bpc = "done"
    /\ max_sections = 1
    /\ Len(all_relevant_sections) = 2
    /\ all_relevant_sections[1].importance_rank = all_relevant_sections[2].importance_rank
    /\ processing_results.extracted_sections = <<all_relevant_sections[1]>>

C6_HandlesReleased ==
    /\ Cardinality(handles) <= 1
    /\ Cardinality(open_handles) <= 1
    /\ bpc \in {"loop", "done"} => handles = {}
    /\ pc \in {"returned", "loop", "done"} => open_handles = {}

\* C7: between documents and at the end, the collected sections and snippets
\* are the concatenation, over the documents met so far, of nothing for a
\* document that was missing, did not open or raised while read, and of what
\* the document yields alone otherwise; the failure does not end the run and
\* the filename is listed all the same.
C7_FailureIsolation ==
    /\ bpc \in {"loop", "done"} =>
        /\ all_relevant_sections =
              Flatten([i \in 1..didx |-> IF DocFailed(i) THEN <<>> ELSE AloneSections(i)])
        /\ all_detailed_subsections =
              Flatten([i \in 1..didx |-> IF DocFailed(i) THEN <<>> ELSE AloneSubsections(i)])
        /\ processed_documents = SubSeq(config_data.documents, 1, didx)
    /\ bpc = "raised" => ~config_data.loads
    /\ bpc = "loop" => didx <= Len(config_data.documents)
    /\ bpc = "done" =>
        /\ didx = Len(config_data.documents)
        /\ processing_results.metadata.input_documents = config_data.documents

\* C7 witness: the first document raised after a qualifying page had been
\* collected, the second was read to its end, and only the second's page is
\* in the result
C7_Witness ==
    /\ bpc = "done"
    /\ Len(read_log) = 2
    /\ read_log[1].raised
    /\ Len(read_log[1].pages) >= 1
    /\ PageQualifies(1, 1)
    /\ ~DocFailed(2)
    /\ Keys(all_relevant_sections) = << <<2, 1>> >>
    /\ processing_results.metadata.input_documents = <<1, 2>>

\* C9 (as claimed): a snippet is never longer than max_text_length; it is the
\* first max_text_length characters of the page's joined span texts when those
\* are longer, and the whole joined text otherwise.
C9_CutOfSourceText ==
    \A d \in Range(detailed_subsections) \cup Range(all_detailed_subsections) :
        LET src == LogPageText(d.document, d.page_number)
        IN /\ Len(d.refined_text) <= max_text_length
           /\ Len(src) > max_text_length => d.refined_text = Take(src, max_text_length)
           /\ Len(src) <= max_text_length => d.refined_text = src

\* C9 (amended): the same, of the page's joined span texts after trimming
\* leading and trailing whitespace.
C9_CutOfTrimmedText ==
    \A d \in Range(detailed_subsections) \cup Range(all_detailed_subsections) :
        LET src == Strip(LogPageText(d.document, d.page_number))
        IN /\ Len(d.refined_text) <= max_text_length
           /\ Len(src) > max_text_length => d.refined_text = Take(src, max_text_length)
           /\ Len(src) <= max_text_length => d.refined_text = src

\* C9 witness: a snippet was cut from a page whose joined text starts with
\* whitespace and is longer than max_text_length after trimming
C9_Witness ==
    \E d \in Range(all_detailed_subsections) :
        LET src == LogPageText(d.document, d.page_number)
        IN /\ Strip(src) # src
           /\ Len(Strip(src)) > max_text_length
           /\ Len(d.refined_text) = max_text_length

====
